---- MODULE Spec2Model ----
(***************************************************************************)
(* A model of src/app.py, the Streamlit alt-text generator.                *)
(*                                                                         *)
(* Text is modelled as a sequence of one-character strings, so that        *)
(* str.strip, slicing, str.lower, str.endswith, base64 and the csv writer  *)
(* are computed character by character, as the library computes them.      *)
(* A script run (Streamlit reruns app.py top to bottom on every widget     *)
(* event) is one action, except the run started by the "Generate           *)
(* descriptions" button, which is suspended at each remote call            *)
(* (src/app.py:95) and resumed by the call's return or failure.            *)
(* The loop of lines 173-175 draws nothing, so a widget event that arrives *)
(* during it waits for the script run to end: no other action is enabled   *)
(* while a call is in flight.                                              *)
(*                                                                         *)
(* The widgets that only change how results look or how the request is     *)
(* worded (writing style, image size, count checkbox, download name) are   *)
(* left at their defaults.                                                 *)
(***************************************************************************)
EXTENDS Integers, Sequences, FiniteSets, TLC

VARIABLES
    api_key,        \* sidebar text input (src/app.py:148)
    max_chars,      \* sidebar slider (src/app.py:151)
    files,          \* the uploader's current batch (src/app.py:165)
    rows,           \* st.session_state["rows"] (src/app.py:162, 176)
    files_by_name,  \* st.session_state["files_by_name"] (src/app.py:163, 170)
    acc,            \* the handler's local list "rows" (src/app.py:172)
    calls,          \* remote calls issued by the current script run (src/app.py:95)
    cards,          \* result cards emitted by the last script run (src/app.py:183-186)
    csv,            \* data of the download button of the last script run (src/app.py:189-195)
    outcome,        \* how the last script run ended, or "running"
    probe           \* input and output of one call of a pure function

vars == <<api_key, max_chars, files, rows, files_by_name, acc, calls, cards, csv,
          outcome, probe>>

(***************************************************************************)
(* Bounds of the model.                                                    *)
(***************************************************************************)
MaxFiles == 2
MaxAffix == 1
MaxInner == 1
MaxCsvRows == 2

(***************************************************************************)
(* Strings.                                                                *)
(***************************************************************************)
Rep(c, n) == [k \in 1..n |-> c]

Take(s, n) == SubSeq(s, 1, IF n < Len(s) THEN n ELSE Len(s))

\* The characters str.strip() and str.rstrip() remove (of this model's alphabet).
Whitespace == {" ", "\n", "\r", "\t"}

RECURSIVE LStrip(_)
LStrip(s) == IF s # <<>> /\ Head(s) \in Whitespace THEN LStrip(Tail(s)) ELSE s

RECURSIVE RStrip(_)
RStrip(s) ==
    IF s # <<>> /\ s[Len(s)] \in Whitespace THEN RStrip(SubSeq(s, 1, Len(s) - 1)) ELSE s

Strip(s) == RStrip(LStrip(s))

EndsWith(s, suf) ==
    /\ Len(suf) <= Len(s)
    /\ SubSeq(s, Len(s) - Len(suf) + 1, Len(s)) = suf

UpperLetters ==
    <<"A", "B", "C", "D", "E", "F", "G", "H", "I", "J", "K", "L", "M",
      "N", "O", "P", "Q", "R", "S", "T", "U", "V", "W", "X", "Y", "Z">>

LowerLetters ==
    <<"a", "b", "c", "d", "e", "f", "g", "h", "i", "j", "k", "l", "m",
      "n", "o", "p", "q", "r", "s", "t", "u", "v", "w", "x", "y", "z">>

LowerChar(c) ==
    IF \E k \in 1..26 : UpperLetters[k] = c
    THEN LowerLetters[CHOOSE k \in 1..26 : UpperLetters[k] = c]
    ELSE c

Lower(s) == [k \in 1..Len(s) |-> LowerChar(s[k])]

\* All sequences over alphabet A of length at most n.
StringsUpTo(A, n) == UNION {[1..k -> A] : k \in 0..n}

\* An optional value: Python's None, or a string.
None == [has |-> FALSE, text |-> <<>>]
Some(s) == [has |-> TRUE, text |-> s]

(***************************************************************************)
(* Pillow, as app.py uses it: Image.open(buf) identifies the format or     *)
(* raises, and .verify() raises on a damaged file.  Both are functions of  *)
(* the bytes.  The buffers of the model and Pillow's answer on each:       *)
(***************************************************************************)
BufPng       == <<137, 80, 78, 71>>
BufPngBadCrc == <<137, 80, 78, 0>>
BufJpeg      == <<255, 216, 255>>
BufJpegTrunc == <<255, 216>>
BufGif       == <<71, 73, 70>>
BufBmp       == <<66, 77>>
BufWebp      == <<82, 73, 70, 70, 87>>
BufTiff      == <<73, 73, 42, 0>>
BufPpm       == <<80, 54>>
BufText      == <<104, 105>>
BufEmpty     == <<>>
BufBomb      == <<137, 80, 78, 71, 255>>

Buffers == {BufPng, BufPngBadCrc, BufJpeg, BufJpegTrunc, BufGif, BufBmp, BufWebp,
            BufTiff, BufPpm, BufText, BufEmpty, BufBomb}

\* Image.open: the format it identifies, or the exception it raises.
\* UnidentifiedImageError is a subclass of OSError; DecompressionBombError
\* is a direct subclass of Exception.
ImageOpen(buf) ==
    CASE buf = BufPng       -> [ok |-> TRUE,  format |-> "PNG"]
      [] buf = BufPngBadCrc -> [ok |-> TRUE,  format |-> "PNG"]
      [] buf = BufJpeg      -> [ok |-> TRUE,  format |-> "JPEG"]
      [] buf = BufJpegTrunc -> [ok |-> TRUE,  format |-> "JPEG"]
      [] buf = BufGif       -> [ok |-> TRUE,  format |-> "GIF"]
      [] buf = BufBmp       -> [ok |-> TRUE,  format |-> "BMP"]
      [] buf = BufWebp      -> [ok |-> TRUE,  format |-> "WEBP"]
      [] buf = BufTiff      -> [ok |-> TRUE,  format |-> "TIFF"]
      [] buf = BufPpm       -> [ok |-> TRUE,  format |-> "PPM"]
      [] buf = BufBomb      -> [ok |-> FALSE, format |-> "DecompressionBombError"]
      [] OTHER              -> [ok |-> FALSE, format |-> "UnidentifiedImageError"]

\* Image.open(buf).verify(): "ok", or the class of the exception raised.
\* A PNG chunk with a bad checksum raises SyntaxError, truncated data OSError.
ImageVerify(buf) ==
    LET o == ImageOpen(buf) IN
    CASE ~o.ok              -> o.format
      [] buf = BufPngBadCrc -> "SyntaxError"
      [] buf = BufJpegTrunc -> "OSError"
      [] OTHER              -> "ok"

(***************************************************************************)
(* sniff_mime and to_data_url (src/app.py:46-69).                          *)
(***************************************************************************)
FORMAT_TO_MIME ==
    [f \in {"JPEG", "PNG", "WEBP", "GIF", "BMP", "TIFF"} |->
        CASE f = "JPEG" -> "image/jpeg"
          [] f = "PNG"  -> "image/png"
          [] f = "WEBP" -> "image/webp"
          [] f = "GIF"  -> "image/gif"
          [] f = "BMP"  -> "image/bmp"
          [] f = "TIFF" -> "image/tiff"]

\* Lines 58-65: the filename fallback.
ExtensionMime(filename) ==
    IF filename.has /\ filename.text # <<>>
    THEN LET lower == Lower(filename.text) IN
         CASE EndsWith(lower, <<".", "p", "n", "g">>)      -> "image/png"
           [] EndsWith(lower, <<".", "w", "e", "b", "p">>) -> "image/webp"
           [] EndsWith(lower, <<".", "g", "i", "f">>)      -> "image/gif"
           [] EndsWith(lower, <<".", "b", "m", "p">>)      -> "image/bmp"
           [] EndsWith(lower, <<".", "t", "i", "f">>)
              \/ EndsWith(lower, <<".", "t", "i", "f", "f">>) -> "image/tiff"
           [] OTHER -> "image/jpeg"
    ELSE "image/jpeg"

\* sniff_mime with the filename consulted before the decoded format.
sniff_mime_ExtensionFirst(buf, filename) ==
    LET img == ImageOpen(buf) IN
    IF ExtensionMime(filename) # "image/jpeg" THEN ExtensionMime(filename)
    ELSE IF img.ok /\ img.format \in DOMAIN FORMAT_TO_MIME
    THEN FORMAT_TO_MIME[img.format]
    ELSE "image/jpeg"

sniff_mime(buf, filename) ==
    LET img == ImageOpen(buf) IN
    IF img.ok /\ img.format \in DOMAIN FORMAT_TO_MIME
    THEN FORMAT_TO_MIME[img.format]
    ELSE ExtensionMime(filename)

B64Alphabet ==
    <<"A", "B", "C", "D", "E", "F", "G", "H", "I", "J", "K", "L", "M",
      "N", "O", "P", "Q", "R", "S", "T", "U", "V", "W", "X", "Y", "Z",
      "a", "b", "c", "d", "e", "f", "g", "h", "i", "j", "k", "l", "m",
      "n", "o", "p", "q", "r", "s", "t", "u", "v", "w", "x", "y", "z",
      "0", "1", "2", "3", "4", "5", "6", "7", "8", "9", "+", "/">>

B64Char(v) == B64Alphabet[v + 1]

\* base64.b64encode: three bytes to four characters, "=" padding at the end.
RECURSIVE b64encode(_)
b64encode(buf) ==
    IF Len(buf) = 0 THEN <<>>
    ELSE IF Len(buf) = 1 THEN
        <<B64Char(buf[1] \div 4), B64Char((buf[1] % 4) * 16), "=", "=">>
    ELSE IF Len(buf) = 2 THEN
        <<B64Char(buf[1] \div 4),
          B64Char((buf[1] % 4) * 16 + buf[2] \div 16),
          B64Char((buf[2] % 16) * 4), "=">>
    ELSE
        <<B64Char(buf[1] \div 4),
          B64Char((buf[1] % 4) * 16 + buf[2] \div 16),
          B64Char((buf[2] % 16) * 4 + buf[3] \div 64),
          B64Char(buf[3] % 64)>> \o b64encode(SubSeq(buf, 4, Len(buf)))

\* The f-string of line 69, as its four segments in order.
to_data_url(buf, filename) ==
    <<"data:", sniff_mime(buf, filename), ";base64,", b64encode(buf)>>

(***************************************************************************)
(* generate_alt (src/app.py:84-107).                                       *)
(***************************************************************************)
SliderMin == 60
SliderMax == 200
SliderDefault == 125
SliderStep == 5

\* Every position of the slider of line 151.
SliderValues == {m \in SliderMin..SliderMax : (m - SliderMin) % SliderStep = 0}

\* The exception classes the except clause of line 91 names.
CaughtByValidator == {"UnidentifiedImageError", "OSError"}

\* A validator that lets every file through to the remote call.
Validate_AcceptsAll(raw) == "ok"

\* Lines 88-92: "ok" (go on to the remote call), "not_image" (return the
\* sentinel) or "raise" (the exception leaves generate_alt).
Validate(raw) ==
    LET e == ImageVerify(raw) IN
    IF e = "ok" THEN "ok"
    ELSE IF e \in CaughtByValidator THEN "not_image"
    ELSE "raise"

\* "(not an image)", line 92.
Sentinel ==
    <<"(", "n", "o", "t", " ", "a", "n", " ", "i", "m", "a", "g", "e", ")">>

\* Line 107 without the final rstrip().
PostProcess_NoRStrip(content, m) ==
    Take(Strip(IF content.has THEN content.text ELSE <<>>), m)

\* Line 107 without the slice.
PostProcess_NoCut(content, m) ==
    RStrip(Strip(IF content.has THEN content.text ELSE <<>>))

\* Lines 106-107: (content or "").strip(), then [:max_chars].rstrip().
\* content is an optional string: None when the message has none.
PostProcess(content, m) ==
    LET text == Strip(IF content.has THEN content.text ELSE <<>>) IN
    RStrip(Take(text, m))

\* The request of lines 94-105, as far as it depends on the file.
Request(f, m) ==
    [url |-> to_data_url(f.raw, Some(f.name)), max_chars |-> m]

(***************************************************************************)
(* The results section (src/app.py:109-139, 179-195).                      *)
(***************************************************************************)
\* Line 175: (f.name, alt, len(alt)).
MakeRow(name, alt) == [name |-> name, alt |-> alt, chars |-> Len(alt)]

\* A table in which the first file of a name stays.
Table_FirstWins(fs) ==
    [n \in {fs[i].name : i \in 1..Len(fs)} |->
        fs[CHOOSE i \in 1..Len(fs) :
              /\ fs[i].name = n
              /\ \A j \in 1..Len(fs) : fs[j].name = n => i <= j]]

\* Line 170: {f.name: f for f in files}; a later file replaces an earlier
\* one of the same name.
Table(fs) ==
    [n \in {fs[i].name : i \in 1..Len(fs)} |->
        fs[CHOOSE i \in 1..Len(fs) :
              /\ fs[i].name = n
              /\ \A j \in 1..Len(fs) : fs[j].name = n => j <= i]]

EmptyTable == [n \in {} |-> n]

\* render_result_card: the image shown and the texts beside it.
Card(file_obj, row) ==
    [img_src |-> to_data_url(file_obj.raw, Some(file_obj.name)),
     name |-> row.name, alt |-> row.alt, chars |-> row.chars]

\* Lines 183-186: one card per row whose name the table knows.
RECURSIVE RenderCards(_, _)
RenderCards(rws, fbn) ==
    IF rws = <<>> THEN <<>>
    ELSE (IF Head(rws).name \in DOMAIN fbn
          THEN <<Card(fbn[Head(rws).name], Head(rws))>>
          ELSE <<>>) \o RenderCards(Tail(rws), fbn)

Digits == <<"0", "1", "2", "3", "4", "5", "6", "7", "8", "9">>

\* str(n) for n >= 0, as csv.writer writes a number.
RECURSIVE IntToStr(_)
IntToStr(n) ==
    IF n < 10 THEN <<Digits[n + 1]>>
    ELSE IntToStr(n \div 10) \o <<Digits[(n % 10) + 1]>>

\* csv.writer, excel dialect, QUOTE_MINIMAL: a field holding the delimiter,
\* the quote character or a character of the line terminator is quoted, and
\* each quote character in it is doubled.
CsvSpecial == {",", "\"", "\r", "\n"}

RECURSIVE CsvDouble(_)
CsvDouble(s) ==
    IF s = <<>> THEN <<>>
    ELSE (IF Head(s) = "\"" THEN <<"\"", "\"">> ELSE <<Head(s)>>) \o CsvDouble(Tail(s))

\* A writer that quotes a field but does not double the quotes inside it.
CsvField_NoDoubling(s) ==
    IF \E k \in 1..Len(s) : s[k] \in CsvSpecial
    THEN <<"\"">> \o s \o <<"\"">>
    ELSE s

CsvField(s) ==
    IF \E k \in 1..Len(s) : s[k] \in CsvSpecial
    THEN <<"\"">> \o CsvDouble(s) \o <<"\"">>
    ELSE s

\* writer.writerow of three fields: joined by "," and ended by "\r\n".
CsvRecord(a, b, c) ==
    CsvField(a) \o <<",">> \o CsvField(b) \o <<",">> \o CsvField(c) \o <<"\r", "\n">>

CsvHeader ==
    CsvRecord(<<"f", "i", "l", "e", "n", "a", "m", "e">>,
              <<"a", "l", "t", "_", "t", "e", "x", "t">>,
              <<"c", "h", "a", "r", "s">>)

RECURSIVE CsvRows(_)
CsvRows(rws) ==
    IF rws = <<>> THEN <<>>
    ELSE CsvRecord(Head(rws).name, Head(rws).alt, IntToStr(Head(rws).chars))
         \o CsvRows(Tail(rws))

\* Lines 189-194 (the texts of the model are ASCII: encode is the identity).
CsvExport(rws) == CsvHeader \o CsvRows(rws)

(***************************************************************************)
(* The session: uploads, settings, and the script (src/app.py:146-197).    *)
(***************************************************************************)
NameA      == <<"a", ".", "p", "n", "g">>
NameBroken == <<"b", "r", "o", "k", "e", "n", ".", "j", "p", "g">>
NameBad    == <<"b", "a", "d", ".", "p", "n", "g">>

\* The files a user uploads in the model: two valid images that share a
\* display name, a truncated file and a PNG with a damaged chunk.
FileA1 == [name |-> NameA, raw |-> BufPng]
FileA2 == [name |-> NameA, raw |-> BufJpeg]
FileBroken == [name |-> NameBroken, raw |-> BufJpegTrunc]
FileBad == [name |-> NameBad, raw |-> BufPngBadCrc]

UploadFiles == {FileA1, FileA2, FileBroken, FileBad}

\* The message contents the remote model answers with in the model: none,
\* and a text with surrounding whitespace that is longer than the smallest
\* maximum length and whose 60th character, once stripped, is a space.
RespLong ==
    Some(<<" ">> \o Rep("x", SliderMin - 1) \o <<" ">> \o Rep("y", 10) \o <<"\n">>)

Responses == {None, RespLong}

\* The slider positions the model moves between.
SliderStops == {SliderMin, SliderDefault, SliderMax}

ApiKeys == {"", "sk-key"}

\* The call the script run is suspended at: the last one issued.
CurCall == calls[Len(calls)]

Running == outcome = "running"

\* A loop that appends no row for a file that fails validation.
RECURSIVE RunLoop_DropsSentinel(_, _, _)
RunLoop_DropsSentinel(fs, i, a) ==
    IF i > Len(fs) THEN [stop |-> "done", i |-> i, acc |-> a]
    ELSE LET v == Validate(fs[i].raw) IN
         CASE v = "ok" -> [stop |-> "call", i |-> i, acc |-> a]
           [] v = "not_image" -> RunLoop_DropsSentinel(fs, i + 1, a)
           [] OTHER -> [stop |-> "raise", i |-> i, acc |-> a]

\* Lines 173-175, from file i on, up to the next remote call: files that
\* fail validation get their sentinel row; the loop stops at the first file
\* to send ("call"), at an exception leaving generate_alt ("raise"), or at
\* the end of the batch ("done").
RECURSIVE RunLoop(_, _, _)
RunLoop(fs, i, a) ==
    IF i > Len(fs) THEN [stop |-> "done", i |-> i, acc |-> a]
    ELSE LET v == Validate(fs[i].raw) IN
         CASE v = "ok" -> [stop |-> "call", i |-> i, acc |-> a]
           [] v = "not_image" ->
                RunLoop(fs, i + 1, Append(a, MakeRow(fs[i].name, Sentinel)))
           [] OTHER -> [stop |-> "raise", i |-> i, acc |-> a]

\* Lines 178-195: what the script shows for the stored rows.
ShowResults(rws, fbn) ==
    /\ cards' = IF rws # <<>> THEN RenderCards(rws, fbn) ELSE <<>>
    /\ csv' = IF rws # <<>> THEN Some(CsvExport(rws)) ELSE None

\* The handler's loop goes on from r = RunLoop(...), log being the calls
\* issued so far: it issues the next call and waits, or line 176 stores the
\* rows and the results are shown, or the exception ends the script run
\* with nothing stored or shown.
Proceed(r, log) ==
    CASE r.stop = "call" ->
            /\ calls' = Append(log, [idx |-> r.i,
                                     req |-> Request(files[r.i], max_chars),
                                     status |-> "pending",
                                     content |-> None])
            /\ acc' = r.acc
            /\ outcome' = "running"
            /\ rows' = rows
            /\ cards' = <<>>
            /\ csv' = None
      [] r.stop = "done" ->
            /\ calls' = log
            /\ acc' = <<>>
            /\ outcome' = "generated"
            /\ rows' = r.acc
            /\ ShowResults(r.acc, files_by_name')
      [] OTHER ->
            /\ calls' = log
            /\ acc' = <<>>
            /\ outcome' = "decode_error"
            /\ rows' = rows
            /\ cards' = <<>>
            /\ csv' = None

\* One run of the script with the button not pressed.
Rerun(key, m, fs) ==
    /\ api_key' = key
    /\ max_chars' = m
    /\ files' = fs
    /\ rows' = rows
    /\ acc' = <<>>
    /\ calls' = <<>>
    /\ probe' = probe
    /\ IF key # ""
       THEN /\ files_by_name' = IF fs # <<>> THEN Table(fs) ELSE files_by_name
            /\ ShowResults(rows, files_by_name')
            /\ outcome' = "rerun"
       ELSE /\ files_by_name' = files_by_name
            /\ cards' = <<>>
            /\ csv' = None
            /\ outcome' = "nokey"

\* The session before any script run has drawn anything.
FreshSession ==
    /\ api_key = ""
    /\ max_chars = SliderDefault
    /\ files = <<>>
    /\ rows = <<>>
    /\ files_by_name = EmptyTable
    /\ acc = <<>>
    /\ calls = <<>>
    /\ cards = <<>>
    /\ csv = None
    /\ outcome = "nokey"

Init ==
    /\ FreshSession
    /\ probe = [op |-> "none"]

\* The user types or clears the key.  Without a key the uploader is not
\* drawn (line 160), and the framework drops the state of a widget that a
\* script run does not draw: the batch is empty when the key comes back.
SetApiKey ==
    /\ ~Running
    /\ \E k \in ApiKeys \ {api_key} :
         Rerun(k, max_chars, IF k = "" THEN <<>> ELSE files)

MoveSlider ==
    /\ ~Running
    /\ \E m \in SliderStops \ {max_chars} : Rerun(api_key, m, files)

\* s without its k-th element.
RemoveAt(s, k) == SubSeq(s, 1, k - 1) \o SubSeq(s, k + 1, Len(s))

\* The user adds a file to the uploader (drawn only with a key); the
\* uploader lists the files in the order they were added.
UploadFile ==
    /\ ~Running
    /\ api_key # ""
    /\ Len(files) < MaxFiles
    /\ \E f \in UploadFiles : Rerun(api_key, max_chars, Append(files, f))

\* The user removes one file from the uploader.
RemoveFile ==
    /\ ~Running
    /\ api_key # ""
    /\ \E k \in 1..Len(files) : Rerun(api_key, max_chars, RemoveAt(files, k))

\* The button of line 171, drawn only with a key and a non-empty batch:
\* line 170, then the loop up to its first remote call.
ClickGenerate ==
    /\ ~Running
    /\ api_key # ""
    /\ files # <<>>
    /\ files_by_name' = Table(files)
    /\ Proceed(RunLoop(files, 1, <<>>), <<>>)
    /\ UNCHANGED <<api_key, max_chars, files, probe>>

\* The remote call returns a response: lines 106-107, the row of line 175,
\* and the loop goes on with the next file.
CallReturn ==
    /\ Running
    /\ UNCHANGED <<api_key, max_chars, files, files_by_name, probe>>
    /\ \E content \in Responses :
         LET i == CurCall.idx
             alt == PostProcess(content, max_chars)
             log == [calls EXCEPT ![Len(calls)] =
                        [@ EXCEPT !.status = "returned", !.content = content]]
         IN Proceed(RunLoop(files, i + 1, Append(acc, MakeRow(files[i].name, alt))), log)

\* A handler that catches the failure and stores the rows it has so far.
CallRaise_KeepsPartial ==
    /\ Running
    /\ calls' = [calls EXCEPT ![Len(calls)] = [@ EXCEPT !.status = "raised"]]
    /\ outcome' = "remote_error"
    /\ rows' = acc
    /\ acc' = <<>>
    /\ cards' = <<>>
    /\ csv' = None
    /\ UNCHANGED <<api_key, max_chars, files, files_by_name, probe>>

\* The remote call fails (a network error, or a response without choices):
\* nothing catches the exception, and it ends the script run.
CallRaise ==
    /\ Running
    /\ calls' = [calls EXCEPT ![Len(calls)] = [@ EXCEPT !.status = "raised"]]
    /\ outcome' = "remote_error"
    /\ acc' = <<>>
    /\ cards' = <<>>
    /\ csv' = None
    /\ UNCHANGED <<api_key, max_chars, files, rows, files_by_name, probe>>

Next ==
    \/ SetApiKey
    \/ MoveSlider
    \/ UploadFile
    \/ RemoveFile
    \/ ClickGenerate
    \/ CallReturn
    \/ CallRaise

Spec == Init /\ [][Next]_vars

(***************************************************************************)
(* sniff_mime and to_data_url on their own: one call on a buffer and a     *)
(* filename (or None) drawn from the sets below.                           *)
(***************************************************************************)
MimeNames ==
    {None,
     Some(<<>>),
     Some(<<"a", ".", "p", "n", "g">>),
     Some(<<"A", ".", "P", "N", "G">>),
     Some(<<"b", ".", "w", "e", "b", "p">>),
     Some(<<"c", ".", "G", "i", "F">>),
     Some(<<"d", ".", "b", "m", "p">>),
     Some(<<"e", ".", "t", "i", "f">>),
     Some(<<"f", ".", "T", "I", "F", "F">>),
     Some(<<"g", ".", "j", "p", "g">>),
     Some(<<"p", "n", "g">>),
     Some(<<"h", ".", "p", "n", "g", ".", "t", "x", "t">>)}

InitMime ==
    /\ FreshSession
    /\ \E b \in Buffers, n \in MimeNames :
         probe = [op |-> "to_data_url", buf |-> b, filename |-> n,
                  sniffed |-> FALSE, mime |-> "", encoded |-> FALSE, url |-> <<>>]

SniffMime ==
    /\ probe.op = "to_data_url"
    /\ ~probe.sniffed
    /\ probe' = [probe EXCEPT !.sniffed = TRUE,
                              !.mime = sniff_mime(probe.buf, probe.filename)]
    /\ UNCHANGED <<api_key, max_chars, files, rows, files_by_name, acc, calls, cards,
                   csv, outcome>>

ToDataUrl ==
    /\ probe.op = "to_data_url"
    /\ ~probe.encoded
    /\ probe' = [probe EXCEPT !.encoded = TRUE,
                              !.url = to_data_url(probe.buf, probe.filename)]
    /\ UNCHANGED <<api_key, max_chars, files, rows, files_by_name, acc, calls, cards,
                   csv, outcome>>

NextMime ==
    \/ SniffMime
    \/ ToDataUrl

SpecMime == InitMime /\ [][NextMime]_vars

(***************************************************************************)
(* generate_alt on its own: one call on one file, with every slider        *)
(* position and a response drawn from AltContents.                         *)
(***************************************************************************)
AltFiles ==
    {[name |-> NameA, raw |-> b] : b \in {BufPng, BufJpegTrunc, BufText, BufPngBadCrc}}

Affixes == StringsUpTo({" ", "\n", "a"}, MaxAffix)

PadLens == {0, SliderMin - 1, SliderMin, SliderMax - 1}

TailLens == {0, 3}

\* Message contents: none, or a run of "x" between two short affixes that
\* may hold whitespace, with or without more text after it.
AltContents ==
    {None} \cup
    {Some(pre \o Rep("x", pad) \o post \o Rep("y", t)) :
        pre \in Affixes, post \in Affixes, pad \in PadLens, t \in TailLens}

InitAlt ==
    /\ FreshSession
    /\ \E f \in AltFiles, m \in SliderValues :
         probe = [op |-> "generate_alt", file |-> f, max_chars |-> m,
                  stage |-> "start", content |-> None, out |-> <<>>]

\* Lines 88-95: validation, then the sentinel, the exception or the call.
AltValidate ==
    /\ probe.op = "generate_alt"
    /\ probe.stage = "start"
    /\ LET v == Validate(probe.file.raw) IN
       probe' = CASE v = "ok" -> [probe EXCEPT !.stage = "called"]
                  [] v = "not_image" ->
                        [probe EXCEPT !.stage = "returned", !.out = Sentinel]
                  [] OTHER -> [probe EXCEPT !.stage = "raised"]
    /\ UNCHANGED <<api_key, max_chars, files, rows, files_by_name, acc, calls, cards,
                   csv, outcome>>

\* Lines 106-107 on the response of the call.
AltReturn ==
    /\ probe.op = "generate_alt"
    /\ probe.stage = "called"
    /\ \E content \in AltContents :
         probe' = [probe EXCEPT !.stage = "returned", !.content = content,
                                !.out = PostProcess(content, probe.max_chars)]
    /\ UNCHANGED <<api_key, max_chars, files, rows, files_by_name, acc, calls, cards,
                   csv, outcome>>

\* The call of line 95 raises.
AltRaise ==
    /\ probe.op = "generate_alt"
    /\ probe.stage = "called"
    /\ probe' = [probe EXCEPT !.stage = "raised"]
    /\ UNCHANGED <<api_key, max_chars, files, rows, files_by_name, acc, calls, cards,
                   csv, outcome>>

NextAlt ==
    \/ AltValidate
    \/ AltReturn
    \/ AltRaise

SpecAlt == InitAlt /\ [][NextAlt]_vars

(***************************************************************************)
(* The CSV export on its own: rows as line 175 builds them, with texts     *)
(* that hold commas, quotes and line breaks.                               *)
(***************************************************************************)
NameComma == <<"a", ",", "b", ".", "p", "n", "g">>

CsvNames == {NameA, NameComma}

CsvAlphabet == {"a", ",", "\"", "\n"}

\* Descriptions as generate_alt returns them: the empty one, and "A", any
\* short text, "."
CsvTexts ==
    {<<>>} \cup
    {PostProcess(Some(<<"A">> \o s \o <<".">>), SliderMin) :
        s \in StringsUpTo(CsvAlphabet, MaxInner)}

CsvRowValues == {MakeRow(n, t) : n \in CsvNames, t \in CsvTexts}

InitCsv ==
    /\ FreshSession
    /\ \E rws \in StringsUpTo(CsvRowValues, MaxCsvRows) :
         probe = [op |-> "csv", rows |-> rws, written |-> FALSE, out |-> <<>>]

\* Lines 189-194.
WriteCsv ==
    /\ probe.op = "csv"
    /\ ~probe.written
    /\ probe' = [probe EXCEPT !.written = TRUE, !.out = CsvExport(probe.rows)]
    /\ UNCHANGED <<api_key, max_chars, files, rows, files_by_name, acc, calls, cards,
                   csv, outcome>>

NextCsv == WriteCsv

SpecCsv == InitCsv /\ [][NextCsv]_vars

(***************************************************************************)
(* The claims.                                                             *)
(***************************************************************************)
FileNames == {files[i].name : i \in 1..Len(files)}

\* The indexes, in order, of the files of fs[1..n] that pass verification.
RECURSIVE DecodableUpTo(_, _)
DecodableUpTo(fs, n) ==
    IF n = 0 THEN <<>>
    ELSE DecodableUpTo(fs, n - 1)
         \o (IF ImageVerify(fs[n].raw) = "ok" THEN <<n>> ELSE <<>>)

CallIdxs == [k \in 1..Len(calls) |-> calls[k].idx]

\* C1: when "Generate descriptions" completes on a batch of N files, the
\* stored rows are N, and row i is the result of file i: its name, the
\* description produced for it (from the response to the call made for file
\* i, or the sentinel when it is not an image) and that text's length.
C1_RowsMatchBatch ==
    outcome = "generated" =>
        /\ Len(rows) = Len(files)
        /\ \A i \in 1..Len(files) :
             /\ rows[i].name = files[i].name
             /\ rows[i].chars = Len(rows[i].alt)
             /\ IF ImageVerify(files[i].raw) = "ok"
                THEN \E k \in 1..Len(calls) :
                        /\ calls[k].idx = i
                        /\ rows[i].alt = PostProcess(calls[k].content, max_chars)
                ELSE rows[i].alt = Sentinel

\* A completed batch of two files with different outcomes and results.
C1_Witness ==
    /\ outcome = "generated"
    /\ Len(files) = 2
    /\ ImageVerify(files[1].raw) # "ok"
    /\ ImageVerify(files[2].raw) = "ok"
    /\ rows[2].alt # <<>>

\* C2: a file whose bytes fail decoding, with whatever error, never makes
\* generate_alt raise, gets no remote call, and gets the row
\* (name, "(not an image)", 14), the rest of the batch being processed.
C2_DecodeFailureGivesSentinel ==
    /\ outcome # "decode_error"
    /\ \A k \in 1..Len(calls) : ImageVerify(files[calls[k].idx].raw) = "ok"
    /\ outcome = "generated" =>
         \A i \in 1..Len(files) :
            ImageVerify(files[i].raw) # "ok" =>
                rows[i] = [name |-> files[i].name, alt |-> Sentinel, chars |-> 14]

\* C4 as claimed: every stored row is within the current maximum length.
C4_WithinCurrentMax ==
    \A i \in 1..Len(rows) : rows[i].chars <= max_chars

\* C4: every stored row's count is the length of its text; it is within
\* the maximum length the rows were generated with (the current one when
\* "Generate descriptions" has just completed), and so within the slider's
\* upper bound at all times.
C4_WithinMaxAtGeneration ==
    /\ \A i \in 1..Len(rows) :
         /\ rows[i].chars = Len(rows[i].alt)
         /\ rows[i].chars <= SliderMax
    /\ outcome = "generated" => \A i \in 1..Len(rows) : rows[i].chars <= max_chars

\* A batch just generated at the smallest maximum, one text cut to fit it.
C4_Witness ==
    /\ outcome = "generated"
    /\ max_chars = SliderMin
    /\ \E i \in 1..Len(rows) : rows[i].chars = SliderMin - 1
    /\ \E i \in 1..Len(rows) : rows[i].alt = Sentinel

\* C6: a remote call that raises ends the script run at once: no further
\* call is issued (no retry), nothing of the batch is stored, and the
\* session rows are the ones from before the click; rows change only in
\* the step that completes a batch.
C6_RemoteFailureAborts ==
    [][/\ outcome' # "generated" => rows' = rows
       /\ (Running /\ outcome' = "remote_error") =>
            /\ Len(calls') = Len(calls)
            /\ calls'[Len(calls')].status = "raised"
            /\ \A k \in 1..Len(calls') : calls'[k].status # "pending"
            /\ acc' = <<>>]_vars

\* The second call of a batch raised, with rows of an earlier batch stored.
C6_Witness ==
    /\ outcome = "remote_error"
    /\ Len(calls) = 2
    /\ calls[1].status = "returned"
    /\ rows # <<>>

\* C7 as claimed: rows and table are those of the current uploads.
C7_StateFollowsUploads ==
    /\ \A i \in 1..Len(rows) : rows[i].name \in FileNames
    /\ DOMAIN files_by_name = FileNames
    /\ \A i \in 1..Len(files) : files_by_name[files[i].name] = files[i]

\* C7: while the batch is not empty the table maps each uploaded name to
\* the last uploaded file of that name, and when "Generate descriptions"
\* has just completed row i names file i.  (Neither is cleared when the
\* uploads change afterwards.)
C7_TableAndRowsWhenSet ==
    /\ files # <<>> =>
         /\ DOMAIN files_by_name = FileNames
         /\ \A i \in 1..Len(files) :
              (\A j \in (i + 1)..Len(files) : files[j].name # files[i].name)
                => files_by_name[files[i].name] = files[i]
    /\ outcome = "generated" =>
         /\ Len(rows) = Len(files)
         /\ \A i \in 1..Len(rows) : rows[i].name = files[i].name

\* Two uploads share a name while a row of an earlier batch is stored.
C7_Witness ==
    /\ Len(files) = 2
    /\ files[1].name = files[2].name
    /\ files[1] # files[2]
    /\ \E i \in 1..Len(rows) : rows[i].name \notin FileNames

\* C8: after a completed batch the i-th card shows file i's image beside
\* row i's description and count, one card per row, and the CSV holds the
\* same rows.
C8_CardsMatchFiles ==
    outcome = "generated" =>
        /\ Len(cards) = Len(files)
        /\ \A i \in 1..Len(cards) :
             /\ cards[i].img_src = to_data_url(files[i].raw, Some(files[i].name))
             /\ cards[i].name = rows[i].name
             /\ cards[i].alt = rows[i].alt
             /\ cards[i].chars = rows[i].chars
        /\ csv = Some(CsvExport(rows))

\* C10: remote calls are issued only by a "Generate descriptions" run, one
\* at a time and in input order: at most one is in flight, and it is the
\* last one issued; the calls issued so far are exactly one for each
\* decodable file up to the one in flight (all of them once the batch has
\* completed), and none for a file that fails validation.
C10_CallsSequential ==
    /\ Cardinality({k \in 1..Len(calls) : calls[k].status = "pending"}) <= 1
    /\ \A k \in 1..Len(calls) :
         /\ calls[k].status = "pending" => (k = Len(calls) /\ Running)
         /\ k < Len(calls) => calls[k].status = "returned"
         /\ calls[k].req.url = to_data_url(files[calls[k].idx].raw,
                                           Some(files[calls[k].idx].name))
    /\ Running =>
         /\ calls # <<>>
         /\ CurCall.status = "pending"
         /\ CallIdxs = DecodableUpTo(files, CurCall.idx)
    /\ outcome = "generated" => CallIdxs = DecodableUpTo(files, Len(files))
    /\ outcome = "remote_error" => CallIdxs = DecodableUpTo(files, CurCall.idx)
    /\ outcome \in {"rerun", "nokey"} => calls = <<>>
    /\ api_key = "" => calls = <<>>

\* The second call of a batch is in flight after the first has returned.
C10_Witness ==
    /\ Running
    /\ Len(calls) = 2
    /\ calls[1].status = "returned"
    /\ calls[2].status = "pending"

(***************************************************************************)
(* Claims about generate_alt's text, the CSV text and the data URL.        *)
(***************************************************************************)
SetMin(S) == CHOOSE x \in S : \A y \in S : x <= y
SetMax(S) == CHOOSE x \in S : \A y \in S : y <= x

ContentText(content) == IF content.has THEN content.text ELSE <<>>

\* c between its first and its last character that is not whitespace.
Stripped(c) ==
    LET solid == {k \in 1..Len(c) : c[k] \notin Whitespace} IN
    IF solid = {} THEN <<>> ELSE SubSeq(c, SetMin(solid), SetMax(solid))

\* t is s without the whitespace at its end.
IsRightTrimOf(t, s) ==
    /\ Len(t) <= Len(s)
    /\ t = SubSeq(s, 1, Len(t))
    /\ t # <<>> => t[Len(t)] \notin Whitespace
    /\ \A k \in (Len(t) + 1)..Len(s) : s[k] \in Whitespace

AltReturned ==
    /\ probe.op = "generate_alt"
    /\ probe.stage = "returned"
    /\ ImageVerify(probe.file.raw) = "ok"

\* C3 as claimed: the description is the response text cut to its first
\* max_chars characters, with the whitespace at its end removed.
C3_CutsTheResponse ==
    AltReturned =>
        LET c == ContentText(probe.content)
            m == probe.max_chars
        IN IsRightTrimOf(probe.out, SubSeq(c, 1, IF Len(c) < m THEN Len(c) ELSE m))

\* C3: the description is the response text without the whitespace around
\* it, cut to its first max_chars characters, with the whitespace at the end
\* of the cut removed; it has at most max_chars characters, and a missing
\* or empty content gives the empty string.
C3_StripsThenCuts ==
    AltReturned =>
        LET c == ContentText(probe.content)
            m == probe.max_chars
            t == Stripped(c)
        IN /\ IsRightTrimOf(probe.out, SubSeq(t, 1, IF Len(t) < m THEN Len(t) ELSE m))
           /\ Len(probe.out) <= m
           /\ c = <<>> => probe.out = <<>>

\* A response with whitespace in front, longer than the maximum, whose cut
\* ends in whitespace.
C3_Witness ==
    /\ AltReturned
    /\ probe.content.has
    /\ probe.content.text # <<>>
    /\ probe.content.text[1] \in Whitespace
    /\ Len(Stripped(probe.content.text)) > probe.max_chars
    /\ Len(probe.out) < probe.max_chars
    /\ probe.out # <<>>

\* The records of a CSV text in the excel dialect: fields are separated by
\* ",", records end with "\r\n", a quoted field runs to its closing quote
\* and holds "" for each quote character.
RECURSIVE CsvParse(_, _, _, _, _, _)
CsvParse(s, k, quoted, field, rec, recs) ==
    IF k > Len(s) THEN recs
    ELSE IF quoted THEN
        IF s[k] = "\"" THEN
            IF k < Len(s) /\ s[k + 1] = "\""
            THEN CsvParse(s, k + 2, TRUE, Append(field, "\""), rec, recs)
            ELSE CsvParse(s, k + 1, FALSE, field, rec, recs)
        ELSE CsvParse(s, k + 1, TRUE, Append(field, s[k]), rec, recs)
    ELSE IF s[k] = "\"" THEN CsvParse(s, k + 1, TRUE, field, rec, recs)
    ELSE IF s[k] = "," THEN CsvParse(s, k + 1, FALSE, <<>>, Append(rec, field), recs)
    ELSE IF s[k] = "\r" /\ k < Len(s) /\ s[k + 1] = "\n"
        THEN CsvParse(s, k + 2, FALSE, <<>>, <<>>, Append(recs, Append(rec, field)))
    ELSE CsvParse(s, k + 1, FALSE, Append(field, s[k]), rec, recs)

CsvRead(s) == CsvParse(s, 1, FALSE, <<>>, <<>>, <<>>)

RECURSIVE DigitsToNat(_)
DigitsToNat(d) ==
    IF d = <<>> THEN 0
    ELSE 10 * DigitsToNat(SubSeq(d, 1, Len(d) - 1))
         + ((CHOOSE k \in 1..10 : Digits[k] = d[Len(d)]) - 1)

\* The lines of a text: each ends with a line feed.
LineCount(s) == Cardinality({k \in 1..Len(s) : s[k] = "\n"})

RECURSIVE LineBreaksIn(_)
LineBreaksIn(rws) ==
    IF rws = <<>> THEN 0
    ELSE LineCount(Head(rws).name) + LineCount(Head(rws).alt) + LineBreaksIn(Tail(rws))

CsvWritten == probe.op = "csv" /\ probe.written

\* In each record after the header, the third column is the length of the
\* second, which is the row's description.
CsvColumnsAgree ==
    LET recs == CsvRead(probe.out) IN
    /\ Len(recs) = Len(probe.rows) + 1
    /\ recs[1] = <<<<"f", "i", "l", "e", "n", "a", "m", "e">>,
                   <<"a", "l", "t", "_", "t", "e", "x", "t">>,
                   <<"c", "h", "a", "r", "s">>>>
    /\ \A i \in 1..Len(probe.rows) :
         /\ Len(recs[i + 1]) = 3
         /\ recs[i + 1][1] = probe.rows[i].name
         /\ recs[i + 1][2] = probe.rows[i].alt
         /\ DigitsToNat(recs[i + 1][3]) = Len(recs[i + 1][2])

\* C5 as claimed: the export of N rows has exactly N+1 lines, whatever the
\* texts hold, and the columns agree.
C5_LinesAreRowsPlusOne ==
    CsvWritten =>
        /\ LineCount(probe.out) = Len(probe.rows) + 1
        /\ CsvColumnsAgree

\* C5: the export of N rows has exactly N+1 records, the header and one
\* per row in row order, and the columns agree; it has N+1 lines plus one
\* for each line break inside a field.
C5_RecordsAreRowsPlusOne ==
    CsvWritten =>
        /\ CsvColumnsAgree
        /\ LineCount(probe.out) = Len(probe.rows) + 1 + LineBreaksIn(probe.rows)

\* Two rows, one text with a line break, one with a quote.
C5_Witness ==
    /\ CsvWritten
    /\ Len(probe.rows) = 2
    /\ \E k \in 1..Len(probe.rows[1].alt) : probe.rows[1].alt[k] = "\n"
    /\ \E k \in 1..Len(probe.rows[2].alt) : probe.rows[2].alt[k] = "\""

KnownTypes ==
    {<<"JPEG", "image/jpeg">>, <<"PNG", "image/png">>, <<"WEBP", "image/webp">>,
     <<"GIF", "image/gif">>, <<"BMP", "image/bmp">>, <<"TIFF", "image/tiff">>}

ExtensionTypes ==
    {<<<<".", "p", "n", "g">>, "image/png">>,
     <<<<".", "w", "e", "b", "p">>, "image/webp">>,
     <<<<".", "g", "i", "f">>, "image/gif">>,
     <<<<".", "b", "m", "p">>, "image/bmp">>,
     <<<<".", "t", "i", "f">>, "image/tiff">>,
     <<<<".", "t", "i", "f", "f">>, "image/tiff">>}

\* The type the priority order gives: by decoded format, else by
\* extension, else image/jpeg.
TypeByPriority(buf, filename) ==
    LET img == ImageOpen(buf)
        byFormat == {p \in KnownTypes : img.ok /\ p[1] = img.format}
        byExt == {p \in ExtensionTypes :
                    filename.has /\ EndsWith(Lower(filename.text), p[1])}
    IN IF byFormat # {} THEN (CHOOSE p \in byFormat : TRUE)[2]
       ELSE IF byExt # {} THEN (CHOOSE p \in byExt : TRUE)[2]
       ELSE "image/jpeg"

B64Value(c) == (CHOOSE k \in 1..64 : B64Alphabet[k] = c) - 1

\* The bytes a base64 text stands for.
RECURSIVE B64Decode(_)
B64Decode(t) ==
    IF t = <<>> THEN <<>>
    ELSE LET a == B64Value(t[1])
             b == B64Value(t[2])
             rest == B64Decode(SubSeq(t, 5, Len(t)))
         IN IF t[3] = "=" THEN <<a * 4 + b \div 16>>
            ELSE LET c == B64Value(t[3]) IN
                 IF t[4] = "=" THEN <<a * 4 + b \div 16, (b % 16) * 16 + c \div 4>>
                 ELSE <<a * 4 + b \div 16, (b % 16) * 16 + c \div 4,
                        (c % 4) * 64 + B64Value(t[4])>> \o rest

\* C9: sniff_mime gives, for every buffer and filename, the type of the
\* decoded format when there is one in the table, else the type of the
\* filename's extension, else image/jpeg; to_data_url gives "data:", that
\* type, ";base64," and the base64 text of the bytes.
C9_MimeByPriority ==
    probe.op = "to_data_url" =>
        /\ probe.sniffed => probe.mime = TypeByPriority(probe.buf, probe.filename)
        /\ probe.encoded =>
             /\ Len(probe.url) = 4
             /\ probe.url[1] = "data:"
             /\ probe.url[2] = TypeByPriority(probe.buf, probe.filename)
             /\ probe.url[3] = ";base64,"
             /\ Len(probe.url[4]) % 4 = 0
             /\ B64Decode(probe.url[4]) = probe.buf

\* JPEG bytes under a .png name: the decoded format decides.
C9_Witness ==
    /\ probe.op = "to_data_url"
    /\ probe.sniffed
    /\ probe.encoded
    /\ probe.buf = BufJpeg
    /\ probe.filename = Some(<<"a", ".", "p", "n", "g">>)
    /\ probe.mime = "image/jpeg"

====
